---- MODULE Spec2Model ----
(***************************************************************************)
(* Moderation case management of gooca/lion (ModService and the            *)
(* Moderation namespace).  Every public operation is an async function;    *)
(* an action below is one synchronous segment of such a function, from one *)
(* await to the next, so that operations interleave exactly at the awaits. *)
(*                                                                         *)
(* Time is counted in days.  The three collections are sets of records     *)
(* with unique ids.  A collection can be missing from what                 *)
(* StorageService.getCollections() returns (the code guards every access   *)
(* with ?.); which collections exist is fixed along a behaviour.           *)
(* Report.timeStr and the message texts are left out: no operation reads   *)
(* them to decide anything.                                                *)
(***************************************************************************)
EXTENDS Integers, Sequences, FiniteSets, TLC

\* ------------------------------------------------------------- bounds
MaxCalls == 3      \* public calls per behaviour of a caller that awaits each call
MaxOverlap == 2    \* public calls per behaviour of callers that do not wait

\* ------------------------------------------------ configuration, inputs
WarningsThresh == 2
WarningsRange == 2
RetentionDays == 7

CurrentGuild == "g1"
Users == {"u1", "u2"}
Channels == {"c1", "c2"}
Slots == {1, 2}
CollectionNames == {"modreports", "modwarnings", "modbans"}

\* Every collection exists, or exactly one of them is missing.
CollectionSets == {CollectionNames} \cup { CollectionNames \ {c} : c \in CollectionNames }

Undefined == 0
NoUser == ""
NoDescription == ""

\* The Report objects handed to fileReport, fileWarning and fileBan: built by
\* the Report constructor, so each has a description or an attachment.
ReportInputs ==
  { [guild |-> "g1", user |-> "u1", description |-> "spam", attachments |-> <<>>],
    [guild |-> "g1", user |-> "u2", description |-> NoDescription, attachments |-> <<"a.png">>],
    [guild |-> "g2", user |-> "u1", description |-> "spam", attachments |-> <<>>] }

\* The reports about members of the current guild.
GuildReports == { rep \in ReportInputs : rep.guild = CurrentGuild }

NoReport == [guild |-> "", user |-> "", description |-> NoDescription, attachments |-> <<>>]

VARIABLES
  collections,  \* the collections getCollections() returns
  modreports,   \* Report records
  modwarnings,  \* Warning records
  modbans,      \* Ban records
  now,          \* the clock, in days
  ticks,        \* times the clock has advanced since the last call
  tasks,        \* slot -> the async call running in it
  calls,        \* number of public calls made so far
  banReq,       \* <<guild, user>> of every report fileBan asked the platform to ban
  unbanReq,     \* ban id -> number of platform unban requests made for it
  notes,        \* users a direct message was sent to
  log,          \* error messages handed to the logger
  unhandled,    \* promise rejections that no handler ever receives
  lastRet       \* the public call that returned last

vars == <<collections, modreports, modwarnings, modbans, now, ticks, tasks, calls,
          banReq, unbanReq, notes, log, unhandled, lastRet>>

\* ------------------------------------------------------------- helpers
NextId == Cardinality(modreports) + Cardinality(modwarnings) + Cardinality(modbans) + 1

Pair(rep) == <<rep.guild, rep.user>>

BansOf(p) == { b \in modbans : <<b.guild, b.user>> = p }

NoCall ==
  [ op |-> "none", pair |-> <<"", "">>, result |-> "none", pre |-> 0, bans |-> 0,
    list |-> <<>>, counts |-> <<0, 0>>, rep |-> NoReport ]

IdleTask ==
  [ op |-> "idle", pc |-> "done", rep |-> NoReport, result |-> "none",
    repIns |-> "none", repId |-> Undefined,
    recent |-> {}, date |-> 0, banRepId |-> Undefined, banId |-> Undefined,
    matched |-> {}, pending |-> {}, staged |-> {}, okList |-> <<>>,
    pre |-> 0, asked |-> {}, succeeded |-> {} ]

Idle(s) == tasks[s] = IdleTask

FreeSlot(s) == Idle(s) /\ \A r \in Slots : r < s => ~Idle(r)

\* A public call starts in slot s.
Start(s, op, pc, rep) ==
  [ tasks EXCEPT ![s] = [IdleTask EXCEPT !.op = op, !.pc = pc, !.rep = rep] ]

\* What the caller of task t receives when the call returns res, with the
\* number of Ban records of the call's (guild, user) when it was called (pre)
\* and, in newBans, when it returns (bans).
Returned(t, res, newBans) ==
  [ NoCall EXCEPT !.op = t.op, !.pair = Pair(t.rep), !.result = res, !.pre = t.pre,
      !.bans = Cardinality({ b \in newBans : <<b.guild, b.user>> = Pair(t.rep) }) ]

\* ----------------------------------------------------------- _insertReport
\* insertOne on modreports: a missing collection gives an undefined id and
\* writes nothing.
insertReport(rep) ==
  IF "modreports" \in collections
    THEN [ reports |-> modreports \cup
                       { [ id |-> NextId, guild |-> rep.guild, user |-> rep.user,
                           description |-> rep.description,
                           attachments |-> rep.attachments ] },
           id |-> NextId ]
    ELSE [ reports |-> modreports, id |-> Undefined ]

\* The store can reject the insert only if the collection exists.
CanFail(fail) == fail /\ "modreports" \in collections

\* ------------------------------------------------------------- fileReport
FileReportCall(s, rep, max) ==
  /\ calls < max
  /\ FreeSlot(s)
  /\ tasks' = Start(s, "fileReport", "insertReport", rep)
  /\ calls' = calls + 1
  /\ ticks' = 0
  /\ UNCHANGED <<collections, modreports, modwarnings, modbans, now, banReq,
                 unbanReq, notes, log, unhandled, lastRet>>

FileReportInsert(s, fail) ==
  LET t == tasks[s]
      ins == insertReport(t.rep)
      res == IF CanFail(fail) THEN "StoreError"
             ELSE IF ins.id # Undefined THEN "AddedReport" ELSE "CouldNotInsert"
  IN /\ t.op = "fileReport" /\ t.pc = "insertReport"
     /\ fail => CanFail(fail)
     /\ modreports' = IF res = "AddedReport" THEN ins.reports ELSE modreports
     /\ tasks' = [tasks EXCEPT ![s] = IdleTask]
     /\ lastRet' = Returned(t, res, modbans)
     /\ UNCHANGED <<collections, modwarnings, modbans, now, ticks, calls, banReq,
                    unbanReq, notes, log, unhandled>>

\* ---------------------------------------------------- Moderation.Report
\* A lookup that hands back the handle it was given.
resolveAnyone(members, user) == user

\* Lines 11-17: the id of the member with that tag, undefined without one.
resolveUser(members, user) == IF user \in members THEN user ELSE NoUser

\* A constructor that accepts a report only if it has a description.
NewReportNeedsDescription(members, guild, user, description, attachments) ==
  IF resolveUser(members, user) = NoUser
    THEN [error |-> "UserNotResolved", report |-> NoReport]
  ELSE IF description = NoDescription
    THEN [error |-> "EmptyReport", report |-> NoReport]
  ELSE [ error |-> "none",
         report |-> [ guild |-> guild, user |-> user,
                      description |-> description, attachments |-> attachments ] ]

\* The constructor: the report, or the string it throws.
NewReport(members, guild, user, description, attachments) ==
  IF resolveUser(members, user) = NoUser
    THEN [error |-> "UserNotResolved", report |-> NoReport]
  ELSE IF description = NoDescription /\ attachments = <<>>
    THEN [error |-> "EmptyReport", report |-> NoReport]
  ELSE [ error |-> "none",
         report |-> [ guild |-> guild, user |-> resolveUser(members, user),
                      description |-> description, attachments |-> attachments ] ]

\* The guild's member list at one lookup of a user: with or without the user.
MemberSets(user) == {Users, Users \ {user}}

\* What a caller can pass to the constructor.  An absent description and an
\* empty one are one value here, and so are absent and empty attachments: line
\* 77-78 takes both for "has none" and the constructor reads them nowhere else.
Guilds == {CurrentGuild, "g2"}
Descriptions == {NoDescription, "spam"}
AttachmentLists == {<<>>, <<"a.png">>}

\* new Moderation.Report(guild, user, description, attachments), lines 63-85:
\* the caller gets the report or the thrown string; nothing else happens.
NewReportCall(members, guild, user, description, attachments, max) ==
  LET made == NewReport(members, guild, user, description, attachments)
  IN /\ calls < max
     /\ calls' = calls + 1
     /\ ticks' = 0
     /\ lastRet' = [NoCall EXCEPT !.op = "newReport", !.pair = <<guild, user>>,
                                  !.result = made.error, !.rep = made.report]
     /\ UNCHANGED <<collections, modreports, modwarnings, modbans, now, tasks, banReq,
                    unbanReq, notes, log, unhandled>>

\* The slot is free again once the call and every promise it started are over.
Retire(t) == IF t.pc = "done" /\ t.repIns # "pending" THEN IdleTask ELSE t

\* A promise of _insertReport that its caller did not await at once settles
\* (fileWarning line 113, channelBan line 312).  A rejection that nobody
\* awaits any more is unhandled.
ReportSettle(s, fail) ==
  LET t == tasks[s]
      ins == insertReport(t.rep)
      awaited == t.pc \in {"warnQuery", "warnDecide", "warnInsert"}
  IN /\ t.repIns = "pending"
     /\ fail => CanFail(fail)
     /\ modreports' = IF fail THEN modreports ELSE ins.reports
     /\ tasks' = [tasks EXCEPT ![s] =
          Retire([t EXCEPT !.repIns = IF fail THEN "failed" ELSE "settled",
                           !.repId = IF fail THEN Undefined ELSE ins.id])]
     /\ unhandled' = IF fail /\ ~awaited THEN unhandled \cup {"insertReport"} ELSE unhandled
     /\ UNCHANGED <<collections, modwarnings, modbans, now, ticks, calls, banReq,
                    unbanReq, notes, log, lastRet>>

\* ------------------------------------------------------------ fileWarning
\* find({user, guild}).sort({date: -1}).limit(WarningsThresh): every possible
\* answer (records of equal date may come in either order).
RecentWarnings(guild, user) ==
  LET mine == { w \in modwarnings : w.guild = guild /\ w.user = user }
      size == IF Cardinality(mine) < WarningsThresh THEN Cardinality(mine) ELSE WarningsThresh
  IN IF "modwarnings" \notin collections THEN {{}}
     ELSE { r \in SUBSET mine :
              /\ Cardinality(r) = size
              /\ \A w \in r, o \in mine \ r : w.date >= o.date }

\* The threshold compared with > instead of >=.
shouldEscalateAboveThresh(recentWarnings, today) ==
  /\ Cardinality(recentWarnings) > WarningsThresh
  /\ \A w \in recentWarnings : w.date >= today - WarningsRange

\* Lines 124-129.
shouldEscalateToBan(recentWarnings, today) ==
  /\ Cardinality(recentWarnings) >= WarningsThresh
  /\ \A w \in recentWarnings : w.date >= today - WarningsRange

\* Lines 112-113: the report insert is started and not awaited yet.
FileWarningCall(s, rep, max) ==
  /\ calls < max
  /\ FreeSlot(s)
  /\ tasks' = [tasks EXCEPT ![s] =
       [IdleTask EXCEPT !.op = "fileWarning", !.pc = "warnQuery", !.rep = rep,
                        !.repIns = "pending"]]
  /\ calls' = calls + 1
  /\ ticks' = 0
  /\ UNCHANGED <<collections, modreports, modwarnings, modbans, now, banReq,
                 unbanReq, notes, log, unhandled, lastRet>>

\* Lines 115-122.
WarnQuery(s, recent) ==
  LET t == tasks[s]
  IN /\ t.op = "fileWarning" /\ t.pc = "warnQuery"
     /\ recent \in RecentWarnings(t.rep.guild, t.rep.user)
     /\ tasks' = [tasks EXCEPT ![s] = [t EXCEPT !.pc = "warnDecide", !.recent = recent]]
     /\ UNCHANGED <<collections, modreports, modwarnings, modbans, now, ticks, calls,
                    banReq, unbanReq, notes, log, unhandled, lastRet>>

\* _sendModMessageToUser is not awaited: a failed send is an unhandled rejection.
Notify(user, ok) ==
  /\ notes' = notes \cup {user}
  /\ unhandled' = IF ok THEN unhandled ELSE unhandled \cup {"send"}

\* Lines 124-141 up to the await of the report insert.  On escalation fileBan
\* is started, not awaited, and the caller gets its answer at once.  Without a
\* warnings collection the insert and the await in its argument are skipped.
WarnDecide(s, ok) ==
  LET t == tasks[s]
      lost == t.repIns = "failed"
  IN /\ t.op = "fileWarning" /\ t.pc = "warnDecide"
     /\ IF shouldEscalateToBan(t.recent, now)
          THEN /\ ok
               /\ tasks' = [tasks EXCEPT ![s] =
                    [t EXCEPT !.pc = "banCheck", !.result = "EscalatedToBan"]]
               /\ lastRet' = Returned(t, "EscalatedToBan", modbans)
               /\ unhandled' = IF lost THEN unhandled \cup {"insertReport"} ELSE unhandled
               /\ UNCHANGED notes
          ELSE IF "modwarnings" \notin collections
            THEN /\ tasks' = [tasks EXCEPT ![s] =
                      Retire([t EXCEPT !.pc = "done", !.result = "Warned"])]
                 /\ lastRet' = Returned(t, "Warned", modbans)
                 /\ notes' = notes \cup {t.rep.user}
                 /\ unhandled' = unhandled \cup (IF ok THEN {} ELSE {"send"})
                                           \cup (IF lost THEN {"insertReport"} ELSE {})
            ELSE /\ ok
                 /\ tasks' = [tasks EXCEPT ![s] = [t EXCEPT !.pc = "warnInsert", !.date = now]]
                 /\ UNCHANGED <<lastRet, notes, unhandled>>
     /\ UNCHANGED <<collections, modreports, modwarnings, modbans, now, ticks, calls,
                    banReq, unbanReq, log>>

NewWarning(t) ==
  [ id |-> NextId, guild |-> t.rep.guild, user |-> t.rep.user, date |-> t.date,
    reportId |-> t.repId ]

\* Lines 136-144 from the await of the report insert on.
WarnInsert(s, ok) ==
  LET t == tasks[s]
  IN /\ t.op = "fileWarning" /\ t.pc = "warnInsert"
     /\ t.repIns # "pending"
     /\ IF t.repIns = "failed"
          THEN /\ ok
               /\ lastRet' = Returned(t, "StoreError", modbans)
               /\ UNCHANGED <<modwarnings, notes, unhandled>>
          ELSE /\ modwarnings' = modwarnings \cup {NewWarning(t)}
               /\ Notify(t.rep.user, ok)
               /\ lastRet' = Returned(t, "Warned", modbans)
     /\ tasks' = [tasks EXCEPT ![s] = IdleTask]
     /\ UNCHANGED <<collections, modreports, modbans, now, ticks, calls, banReq,
                    unbanReq, log>>

\* ---------------------------------------------------------------- fileBan
Reason(rep) == IF rep.description = NoDescription THEN "<none>" ELSE rep.description

\* The query made with the current guild instead of the report's guild.
isUserBannedInCurrentGuild(guild, user) ==
  /\ "modbans" \in collections
  /\ \E b \in modbans : b.guild = CurrentGuild /\ b.user = user /\ b.active

\* Lines 333-339.
isUserCurrentlyBanned(guild, user) ==
  /\ "modbans" \in collections
  /\ \E b \in modbans : b.guild = guild /\ b.user = user /\ b.active

\* A Ban record inserted as already lifted.
NewBanLifted(t) ==
  [ id |-> NextId, guild |-> t.rep.guild, user |-> t.rep.user, date |-> t.date,
    active |-> FALSE, reason |-> Reason(t.rep), reportId |-> t.banRepId ]

\* The document of lines 155-162.
NewBan(t) ==
  [ id |-> NextId, guild |-> t.rep.guild, user |-> t.rep.user, date |-> t.date,
    active |-> TRUE, reason |-> Reason(t.rep), reportId |-> t.banRepId ]

\* The ban path of the task in slot s ends with outcome out.  A public fileBan
\* hands it to its caller; the fileBan that fileWarning started is awaited by
\* nobody, so its outcome is dropped and its exception is unhandled.
BanEnds(s, out, newBans) ==
  LET t == tasks[s]
  IN /\ tasks' = [tasks EXCEPT ![s] = Retire([t EXCEPT !.pc = "done"])]
     /\ lastRet' = IF t.op = "fileBan" THEN Returned(t, out, newBans) ELSE lastRet
     /\ unhandled' = IF t.op # "fileBan" /\ out = "StoreError"
                       THEN unhandled \cup {"fileBan"} ELSE unhandled

FileBanCall(s, rep, max) ==
  /\ calls < max
  /\ FreeSlot(s)
  /\ tasks' = [tasks EXCEPT ![s] =
       [IdleTask EXCEPT !.op = "fileBan", !.pc = "banCheck", !.rep = rep,
                        !.pre = Cardinality(BansOf(Pair(rep)))]]
  /\ calls' = calls + 1
  /\ ticks' = 0
  /\ UNCHANGED <<collections, modreports, modwarnings, modbans, now, banReq,
                 unbanReq, notes, log, unhandled, lastRet>>

\* Lines 149-153: the active-ban check; without a bans collection the insert
\* (and the report insert in its argument) is skipped and the ban is requested.
BanCheck(s) ==
  LET t == tasks[s]
  IN /\ t.pc = "banCheck"
     /\ IF isUserCurrentlyBanned(t.rep.guild, t.rep.user)
          THEN /\ BanEnds(s, "AlreadyBanned", modbans)
               /\ UNCHANGED banReq
          ELSE IF "modbans" \in collections
            THEN /\ tasks' = [tasks EXCEPT ![s] = [t EXCEPT !.pc = "banReport", !.date = now]]
                 /\ UNCHANGED <<banReq, lastRet, unhandled>>
            ELSE /\ tasks' = [tasks EXCEPT ![s] = [t EXCEPT !.pc = "banPlatform"]]
                 /\ banReq' = banReq \cup {Pair(t.rep)}
                 /\ UNCHANGED <<lastRet, unhandled>>
     /\ UNCHANGED <<collections, modreports, modwarnings, modbans, now, ticks, calls,
                    unbanReq, notes, log>>

\* Line 161: reportId: await this._insertReport(report).
BanReport(s, fail) ==
  LET t == tasks[s]
      ins == insertReport(t.rep)
  IN /\ t.pc = "banReport"
     /\ fail => CanFail(fail)
     /\ IF fail
          THEN /\ BanEnds(s, "StoreError", modbans)
               /\ UNCHANGED modreports
          ELSE /\ modreports' = ins.reports
               /\ tasks' = [tasks EXCEPT ![s] = [t EXCEPT !.pc = "banInsert", !.banRepId = ins.id]]
               /\ UNCHANGED <<lastRet, unhandled>>
     /\ UNCHANGED <<collections, modwarnings, modbans, now, ticks, calls, banReq,
                    unbanReq, notes, log>>

\* A collection with a unique index over the active bans of a (guild, user):
\* the insert of a second one is dropped.
insertOneUnique(records, doc) ==
  IF \E b \in records : b.guild = doc.guild /\ b.user = doc.user /\ b.active
    THEN records ELSE records \cup {doc}

\* bans.insertOne(doc), line 155: the collection takes any document.
insertOne(records, doc) == records \cup {doc}

\* Lines 155-165: the Ban record is inserted, then the platform ban requested.
BanInsert(s) ==
  LET t == tasks[s]
  IN /\ t.pc = "banInsert"
     /\ modbans' = insertOne(modbans, NewBan(t))
     /\ banReq' = banReq \cup {Pair(t.rep)}
     /\ tasks' = [tasks EXCEPT ![s] = [t EXCEPT !.pc = "banPlatform", !.banId = NextId]]
     /\ UNCHANGED <<collections, modreports, modwarnings, now, ticks, calls, unbanReq,
                    notes, log, unhandled, lastRet>>

PlatformOutcome(ok) == IF ok THEN "Banned" ELSE "BanActionFailed"

\* Lines 164-170: the platform answers the ban request.
BanPlatform(s, ok) ==
  /\ tasks[s].pc = "banPlatform"
  /\ BanEnds(s, PlatformOutcome(ok), modbans)
  /\ UNCHANGED <<collections, modreports, modwarnings, modbans, now, ticks, calls, banReq,
                 unbanReq, notes, log>>

\* ------------------------------------------------- checkForScheduledUnBans
SweepTask == [NoReport EXCEPT !.guild = CurrentGuild]

\* The date filter with $lt instead of $lte.
FindExpiredBefore(cutoff) ==
  { b \in modbans : b.guild = CurrentGuild /\ b.active /\ b.date < cutoff }

\* The find of lines 247-252.
FindExpired(cutoff) ==
  { b \in modbans : b.guild = CurrentGuild /\ b.active /\ b.date <= cutoff }

CountUnbans(ids) ==
  [ id \in DOMAIN unbanReq \cup ids |->
      (IF id \in DOMAIN unbanReq THEN unbanReq[id] ELSE 0) + (IF id \in ids THEN 1 ELSE 0) ]

\* Lines 230-244.  Without a bans collection the run is skipped.
SweepCall(s, max) ==
  /\ calls < max
  /\ FreeSlot(s)
  /\ calls' = calls + 1
  /\ ticks' = 0
  /\ IF "modbans" \in collections
       THEN /\ tasks' = [tasks EXCEPT ![s] =
                 [IdleTask EXCEPT !.op = "sweep", !.pc = "sweepQuery", !.rep = SweepTask,
                                  !.date = now - RetentionDays]]
            /\ UNCHANGED lastRet
       ELSE /\ lastRet' = Returned([IdleTask EXCEPT !.op = "sweep", !.rep = SweepTask],
                                   "NoDb", modbans)
            /\ UNCHANGED tasks
  /\ UNCHANGED <<collections, modreports, modwarnings, modbans, now, banReq,
                 unbanReq, notes, log, unhandled>>

\* Lines 247-262: the query; the map callback asks the platform to unban the
\* user of every ban found.  Lines 266-268 when nothing was found.
SweepQuery(s) ==
  LET t == tasks[s]
      found == { b.id : b \in FindExpired(t.date) }
  IN /\ t.op = "sweep" /\ t.pc = "sweepQuery"
     /\ unbanReq' = CountUnbans(found)
     /\ IF found = {}
          THEN /\ tasks' = [tasks EXCEPT ![s] = IdleTask]
               /\ lastRet' = Returned(t, "NoUnbans", modbans)
          ELSE /\ tasks' = [tasks EXCEPT ![s] =
                    [t EXCEPT !.pc = "sweepUnban", !.matched = found, !.pending = found]]
               /\ UNCHANGED lastRet
     /\ UNCHANGED <<collections, modreports, modwarnings, modbans, now, ticks, calls,
                    banReq, notes, log, unhandled>>

BanWithId(id) == CHOOSE b \in modbans : b.id = id

\* The update staged inside the try, after the unban: skipped when it throws.
stageAfterUnban(staged, id, ok) == IF ok THEN staged \cup {id} ELSE staged

\* Line 260, after the try/catch: staged whatever the unban did.
stageUpdate(staged, id, ok) == staged \cup {id}

\* Lines 255-260: one unban settles; its update is staged whatever the outcome.
SweepUnban(s, id, ok) ==
  LET t == tasks[s]
      left == t.pending \ {id}
  IN /\ t.op = "sweep" /\ t.pc = "sweepUnban"
     /\ id \in t.pending
     /\ log' = IF ok THEN log ELSE log \cup {<<"Failed to unban user", BanWithId(id).user>>}
     /\ tasks' = [tasks EXCEPT ![s] =
          [t EXCEPT !.pending = left, !.staged = stageUpdate(t.staged, id, ok),
                    !.pc = IF left = {} THEN "sweepExecute" ELSE "sweepUnban"]]
     /\ UNCHANGED <<collections, modreports, modwarnings, modbans, now, ticks, calls,
                    banReq, unbanReq, notes, unhandled, lastRet>>

\* updateOne given a plain document instead of $set: the record is replaced.
BulkReplace(staged) ==
  { IF b.id \in staged
      THEN [b EXCEPT !.active = FALSE, !.reason = "", !.reportId = Undefined]
      ELSE b : b \in modbans }

\* A batch that is executed with its updates lost.
BulkSkip(staged) == modbans

\* bulk.find({ _id }).updateOne({ $set: { active: false } }) for every staged id.
BulkExecute(staged) ==
  { IF b.id \in staged THEN [b EXCEPT !.active = FALSE] ELSE b : b \in modbans }

\* Lines 264-274: the batch runs; its failure is caught and logged.
SweepExecute(s, fail) ==
  LET t == tasks[s]
      newBans == IF fail THEN modbans ELSE BulkExecute(t.staged)
  IN /\ t.op = "sweep" /\ t.pc = "sweepExecute"
     /\ modbans' = newBans
     /\ log' = IF fail THEN log \cup {<<"bulk.execute", "">>} ELSE log
     /\ tasks' = [tasks EXCEPT ![s] = IdleTask]
     /\ lastRet' = Returned(t, IF fail THEN "BulkError" ELSE "Executed", newBans)
     /\ UNCHANGED <<collections, modreports, modwarnings, now, ticks, calls, banReq,
                    unbanReq, notes, unhandled>>

\* ------------------------------------------------------------- channelBan
RECURSIVE JoinNames(_)
JoinNames(names) ==
  IF names = <<>> THEN ""
  ELSE IF Len(names) = 1 THEN names[1]
  ELSE names[1] \o ", " \o JoinNames(Tail(names))

ChannelTask(user) == [NoReport EXCEPT !.guild = CurrentGuild, !.user = user]

\* Lines 285-307: an unresolved user ends the call; otherwise the permission
\* change is requested in every channel.
ChannelBanCall(s, user, channels, members, max) ==
  /\ calls < max
  /\ FreeSlot(s)
  /\ calls' = calls + 1
  /\ ticks' = 0
  /\ IF resolveUser(members, user) = NoUser
       THEN /\ log' = log \cup {<<"Failed to resolve", user>>}
            /\ lastRet' = Returned([IdleTask EXCEPT !.op = "channelBan",
                                                    !.rep = ChannelTask(user)],
                                   "Revoked", modbans)
            /\ UNCHANGED tasks
       ELSE /\ tasks' = [tasks EXCEPT ![s] =
                 [IdleTask EXCEPT !.op = "channelBan", !.pc = "chanWait",
                                  !.rep = ChannelTask(user), !.pending = channels,
                                  !.asked = channels]]
            /\ UNCHANGED <<log, lastRet>>
  /\ UNCHANGED <<collections, modreports, modwarnings, modbans, now, banReq,
                 unbanReq, notes, unhandled>>

\* The push made in a finally: the channel is listed whatever the call did.
pushedAlways(list, channel, ok) == Append(list, channel)

\* Lines 298-304: then pushes the channel, catch logs and pushes nothing.
successfulBanChannelList(list, channel, ok) == IF ok THEN Append(list, channel) ELSE list

\* Lines 296-304: one overwritePermissions call settles.
ChannelSettle(s, channel, ok) ==
  LET t == tasks[s]
  IN /\ t.op = "channelBan" /\ t.pc = "chanWait"
     /\ channel \in t.pending
     /\ tasks' = [tasks EXCEPT ![s] =
          [t EXCEPT !.pending = t.pending \ {channel},
                    !.succeeded = IF ok THEN t.succeeded \cup {channel} ELSE t.succeeded,
                    !.okList = successfulBanChannelList(t.okList, channel, ok)]]
     /\ log' = IF ok THEN log ELSE log \cup {<<"Failed to adjust permissions", channel>>}
     /\ UNCHANGED <<collections, modreports, modwarnings, modbans, now, ticks, calls,
                    banReq, unbanReq, notes, unhandled, lastRet>>

SummaryText(okList) == "Took channel permissions away in " \o JoinNames(okList)

\* Lines 309-325: after Promise.all the report is built and its insert started
\* without an await; only what the constructor throws reaches the catch.
ChannelJoin(s, members) ==
  LET t == tasks[s]
      made == NewReport(members, CurrentGuild, t.rep.user, SummaryText(t.okList), <<>>)
      thrown == made.error # "none"
  IN /\ t.op = "channelBan" /\ t.pc = "chanWait"
     /\ t.pending = {}
     /\ log' = IF thrown THEN log \cup {<<"Failed to add report about channel ban.", made.error>>}
               ELSE log
     /\ tasks' = [tasks EXCEPT ![s] =
          Retire([t EXCEPT !.pc = "done", !.result = "Revoked",
                           !.rep = IF thrown THEN t.rep ELSE made.report,
                           !.repIns = IF thrown THEN "none" ELSE "pending"])]
     /\ lastRet' = [Returned(t, "Revoked", modbans) EXCEPT !.list = t.okList]
     /\ UNCHANGED <<collections, modreports, modwarnings, modbans, now, ticks, calls,
                    banReq, unbanReq, notes, unhandled>>

\* ---------------------------------------------------- getModerationSummary
SummaryCall(s, user, members, max) ==
  /\ calls < max
  /\ FreeSlot(s)
  /\ calls' = calls + 1
  /\ ticks' = 0
  /\ tasks' = [tasks EXCEPT ![s] =
       [IdleTask EXCEPT !.op = "summary", !.pc = "summary",
                        !.rep = ChannelTask(resolveUser(members, user))]]
  /\ UNCHANGED <<collections, modreports, modwarnings, modbans, now, banReq,
                 unbanReq, notes, log, unhandled, lastRet>>

Coll(name, records) == IF name \in collections THEN records ELSE {}

\* Lines 183-213: the queries; a record of the latest date is the most recent.
SummaryBuild(s, ban) ==
  LET t == tasks[s]
      mine(records) == { r \in records : r.guild = t.rep.guild /\ r.user = t.rep.user }
      bans == mine(Coll("modbans", modbans))
      latest == { b \in bans : \A o \in bans : b.date >= o.date }
      status == IF ban # Undefined /\ BanWithId(ban).active THEN "Banned" ELSE "Not banned"
  IN /\ t.op = "summary" /\ t.pc = "summary"
     /\ ban \in IF latest = {} THEN {Undefined} ELSE { b.id : b \in latest }
     /\ tasks' = [tasks EXCEPT ![s] = IdleTask]
     /\ lastRet' = [Returned(t, status, modbans) EXCEPT
          !.counts = << Cardinality(mine(Coll("modreports", modreports))),
                        Cardinality(mine(Coll("modwarnings", modwarnings))) >>]
     /\ UNCHANGED <<collections, modreports, modwarnings, modbans, now, ticks, calls,
                    banReq, unbanReq, notes, log, unhandled>>

\* --------------------------------------------------------------- clock
\* A call lasts far less than a day: the day changes between calls, and
\* does so once between one call and the next.
Tick(days, max) ==
  /\ ticks = 0
  /\ calls < max
  /\ \A s \in Slots : Idle(s)
  /\ now' = now + days
  /\ ticks' = ticks + 1
  /\ UNCHANGED <<collections, modreports, modwarnings, modbans, tasks, calls,
                 banReq, unbanReq, notes, log, unhandled, lastRet>>

\* ---------------------------------------------------------------- spec
InitWith(collectionSets) ==
  /\ collections \in collectionSets
  /\ modreports = {}
  /\ modwarnings = {}
  /\ modbans = {}
  /\ now = 0
  /\ ticks = 0
  /\ tasks = [s \in Slots |-> IdleTask]
  /\ calls = 0
  /\ banReq = {}
  /\ unbanReq = [id \in {} |-> 0]
  /\ notes = {}
  /\ log = {}
  /\ unhandled = {}
  /\ lastRet = NoCall

\* The service starts on an empty store in which every collection exists.
Init == InitWith({CollectionNames})

\* The service starts on an empty store in which a collection may be missing.
InitAny == InitWith(CollectionSets)

Quiet == \A s \in Slots : Idle(s)

ReportSteps == \E s \in Slots, fail \in BOOLEAN : ReportSettle(s, fail)

WarnSteps ==
  \E s \in Slots :
    \/ \E recent \in SUBSET modwarnings : WarnQuery(s, recent)
    \/ \E ok \in BOOLEAN : WarnDecide(s, ok)
    \/ \E ok \in BOOLEAN : WarnInsert(s, ok)

BanSteps ==
  \E s \in Slots :
    \/ BanCheck(s)
    \/ \E fail \in BOOLEAN : BanReport(s, fail)
    \/ BanInsert(s)
    \/ \E ok \in BOOLEAN : BanPlatform(s, ok)

SweepSteps ==
  \E s \in Slots :
    \/ SweepQuery(s)
    \/ \E id \in tasks[s].pending, ok \in BOOLEAN : SweepUnban(s, id, ok)
    \/ \E fail \in BOOLEAN : SweepExecute(s, fail)

ChannelSteps ==
  \E s \in Slots :
    \/ \E channel \in Channels, ok \in BOOLEAN : ChannelSettle(s, channel, ok)
    \/ \E members \in MemberSets(tasks[s].rep.user) : ChannelJoin(s, members)

\* The escalation engine, and the ban path it starts, under a caller that awaits each
\* call; between calls the clock advances by a day or by the warnings range.
NextWarn ==
  \/ Quiet /\ \E s \in Slots, rep \in ReportInputs : FileWarningCall(s, rep, MaxCalls)
  \/ ReportSteps
  \/ WarnSteps
  \/ BanSteps
  \/ \E days \in {1, WarningsRange} : Tick(days, MaxCalls)

SpecWarn == InitAny /\ [][NextWarn]_vars

\* The same on a store that has every collection, with the event loop running
\* every continuation that is ready: a ban path that has been started takes its
\* next step.
SpecWarnFair == Init /\ [][NextWarn]_vars /\ WF_vars(BanSteps)

\* The ban path and the sweep under a caller that awaits each call; between
\* calls the clock advances by a day or by about the retention period.
NextSweep ==
  \/ Quiet /\ \E s \in Slots, rep \in ReportInputs : FileBanCall(s, rep, MaxCalls)
  \/ Quiet /\ \E s \in Slots : SweepCall(s, MaxCalls)
  \/ BanSteps
  \/ SweepSteps
  \/ \E days \in {1, RetentionDays - 1, RetentionDays} : Tick(days, MaxCalls)

SpecSweep == InitAny /\ [][NextSweep]_vars

\* The steps of a sweep on a store whose batch update succeeds.
SweepStepsOk ==
  \E s \in Slots :
    \/ SweepQuery(s)
    \/ \E id \in tasks[s].pending, ok \in BOOLEAN : SweepUnban(s, id, ok)
    \/ SweepExecute(s, FALSE)

\* The ban path and the sweep under a caller that awaits each call, on a store
\* that has every collection and executes every batch; the event loop runs
\* every continuation of a sweep that is ready.
NextSweepOk ==
  \/ Quiet /\ \E s \in Slots, rep \in ReportInputs : FileBanCall(s, rep, MaxCalls)
  \/ Quiet /\ \E s \in Slots : SweepCall(s, MaxCalls)
  \/ BanSteps
  \/ SweepStepsOk
  \/ \E days \in {1, RetentionDays - 1, RetentionDays} : Tick(days, MaxCalls)

SpecSweepFair == Init /\ [][NextSweepOk]_vars /\ WF_vars(SweepStepsOk)

\* Bans filed one at a time and sweeps started whenever the scheduler fires,
\* also while an earlier sweep is still running.
NextOverlap ==
  \/ Quiet /\ \E s \in Slots, rep \in ReportInputs : FileBanCall(s, rep, MaxCalls)
  \/ \E s \in Slots : SweepCall(s, MaxCalls)
  \/ BanSteps
  \/ SweepSteps
  \/ Tick(RetentionDays, MaxCalls)

SpecOverlap == Init /\ [][NextOverlap]_vars

\* What fileWarning left running when it returned: the fileBan of line 132,
\* which it does not await, or a report insert nobody awaits any more.
Detached(s) ==
  /\ tasks[s].op = "fileWarning"
  /\ tasks[s].pc \in {"banCheck", "banReport", "banInsert", "banPlatform", "done"}

\* Every public call made so far has returned to its caller.
AllReturned == \A s \in Slots : Idle(s) \/ Detached(s)

\* One call more than MaxCalls: the calls that bring a user to the threshold,
\* the call that escalates, and the call that follows it.
MaxAwaited == MaxCalls + 1

\* fileWarning and fileBan under a caller that awaits each call and makes the
\* next one as soon as the promise of the last one has resolved.
NextAwait ==
  \/ AllReturned /\ \E s \in Slots, rep \in GuildReports :
       \/ FileWarningCall(s, rep, MaxAwaited)
       \/ FileBanCall(s, rep, MaxAwaited)
  \/ ReportSteps
  \/ WarnSteps
  \/ BanSteps

SpecAwait == Init /\ [][NextAwait]_vars

\* Channel access revocation by callers that do not wait for each other.
NextChannel ==
  \/ \E s \in Slots, user \in Users, channels \in SUBSET Channels :
     \E members \in MemberSets(user) :
       ChannelBanCall(s, user, channels, members, MaxOverlap)
  \/ ChannelSteps
  \/ ReportSteps

\* channelBan reads no collection but modreports: the store has every
\* collection, or lacks that one.
SpecChannel ==
  InitWith({CollectionNames, CollectionNames \ {"modreports"}}) /\ [][NextChannel]_vars

\* Reports are constructed and, when the constructor succeeds, filed with
\* fileReport by a caller that awaits each call.
NextReport ==
  \/ Quiet /\ \E guild \in Guilds, user \in Users, description \in Descriptions,
                attachments \in AttachmentLists :
       \E members \in MemberSets(user) :
         NewReportCall(members, guild, user, description, attachments, MaxCalls)
  \/ /\ Quiet /\ lastRet.op = "newReport" /\ lastRet.result = "none"
     /\ \E s \in Slots : FileReportCall(s, lastRet.rep, MaxCalls)
  \/ \E s \in Slots, fail \in BOOLEAN : FileReportInsert(s, fail)

SpecReport == InitAny /\ [][NextReport]_vars

\* Every operation, called on the members of the current guild by callers
\* that do not wait for each other; the clock advances by the retention period.
Suspect == "u1"

Next ==
  \/ \E s \in Slots, rep \in GuildReports :
       \/ FileReportCall(s, rep, MaxOverlap)
       \/ FileWarningCall(s, rep, MaxOverlap)
       \/ FileBanCall(s, rep, MaxOverlap)
  \/ \E s \in Slots : SweepCall(s, MaxOverlap)
  \/ \E s \in Slots, members \in MemberSets(Suspect) :
       \/ ChannelBanCall(s, Suspect, Channels, members, MaxOverlap)
       \/ SummaryCall(s, Suspect, members, MaxOverlap)
  \/ \E s \in Slots, fail \in BOOLEAN : FileReportInsert(s, fail)
  \/ \E s \in Slots, ban \in {Undefined} \cup { b.id : b \in modbans } : SummaryBuild(s, ban)
  \/ ReportSteps
  \/ WarnSteps
  \/ BanSteps
  \/ SweepSteps
  \/ ChannelSteps
  \/ Tick(RetentionDays, MaxOverlap)

Spec == Init /\ [][Next]_vars

\* ================================================================ claims
Stores == <<modreports, modwarnings, modbans>>

\* The task in slot s takes a step.
Moves(s) == tasks'[s] # tasks[s]

\* C1: fileWarning's query answers with the WarningsThresh most recent warnings
\* of the report's (guild, user), and fileWarning takes the ban path exactly
\* when that answer holds at least WarningsThresh records, every one dated
\* today - WarningsRange or later; otherwise it takes the plain warning path.
C1_EscalatesIffThreshInWindow ==
  [][ \A s \in Slots :
        LET t == tasks[s]
            u == tasks'[s]
            mine == { w \in modwarnings : w.guild = t.rep.guild /\ w.user = t.rep.user }
        IN /\ (t.pc = "warnQuery" /\ u.pc # t.pc /\ "modwarnings" \in collections) =>
                /\ u.recent \subseteq mine
                /\ Cardinality(u.recent) <= WarningsThresh
                /\ Cardinality(u.recent) < WarningsThresh => u.recent = mine
                /\ \A w \in u.recent, o \in mine \ u.recent : w.date >= o.date
           /\ (t.pc = "warnDecide" /\ u.pc # t.pc) =>
                IF /\ Cardinality(t.recent) >= WarningsThresh
                   /\ \A w \in t.recent : w.date >= now - WarningsRange
                  THEN /\ u.pc = "banCheck"
                       /\ lastRet'.result = "EscalatedToBan"
                       /\ modwarnings' = modwarnings
                  ELSE /\ u.pc \in {"warnInsert", "done"}
                       /\ IF u.pc = "warnInsert" THEN lastRet' = lastRet
                          ELSE lastRet'.result = "Warned"
           /\ (t.pc = "warnInsert" /\ u.pc # t.pc) =>
                /\ u = IdleTask
                /\ lastRet'.result \in {"Warned", "StoreError"}
                /\ UNCHANGED <<modbans, banReq>> ]_vars

\* C1 witness: a call escalated on exactly WarningsThresh recent warnings.
C1_Witness ==
  \E s \in Slots :
    /\ tasks[s].op = "fileWarning" /\ tasks[s].pc = "banCheck"
    /\ Cardinality(tasks[s].recent) = WarningsThresh
    /\ lastRet.result = "EscalatedToBan"

\* The public fileBan in slot s returns to its caller in this step.
BanReturns(s) == tasks[s].op = "fileBan" /\ tasks'[s] = IdleTask

\* C2: a fileBan called for a (guild, user) without Ban records returns Banned;
\* the next call, a fileBan for the same (guild, user), returns AlreadyBanned
\* and leaves exactly one Ban record of that (guild, user).
C2_SecondCallAlreadyBanned ==
  [][ \A s \in Slots :
        ( /\ BanReturns(s)
          /\ lastRet.op = "fileBan" /\ lastRet.pair = Pair(tasks[s].rep)
          /\ lastRet.result = "Banned" /\ lastRet.pre = 0 )
        => /\ lastRet'.result = "AlreadyBanned"
           /\ lastRet'.bans = 1 ]_vars

\* C3: a fileBan whose check runs while an active Ban of the report's
\* (guild, user) exists ends there with AlreadyBanned; neither the call nor the
\* check writes to a collection or asks the platform for a ban.
C3_AlreadyBannedNoEffects ==
  [][ \A s \in Slots :
        LET t == tasks[s]
            active == \E b \in modbans :
                        b.guild = t.rep.guild /\ b.user = t.rep.user /\ b.active
        IN /\ (t = IdleTask /\ tasks'[s].pc = "banCheck") =>
                UNCHANGED <<Stores, banReq, notes>>
           /\ (t.pc = "banCheck" /\ Moves(s) /\ active) =>
                /\ tasks'[s].pc = "done"
                /\ t.op = "fileBan" => lastRet'.result = "AlreadyBanned"
                /\ UNCHANGED <<Stores, banReq, notes>> ]_vars

\* C3 witness: a fileBan has returned AlreadyBanned.
C3_Witness ==
  /\ lastRet.op = "fileBan" /\ lastRet.result = "AlreadyBanned"
  /\ \E b \in modbans : <<b.guild, b.user>> = lastRet.pair /\ b.active

\* C4: whenever fileBan has asked the platform to ban the user of a report, a
\* Ban record of that (guild, user) is in the store.
C4_RecordBeforePlatformBan ==
  \A p \in banReq : \E b \in modbans : <<b.guild, b.user>> = p

\* C5: when the platform ban fails, fileBan returns BanActionFailed and the Ban
\* record that call inserted is in the store, active.
C5_FailedBanKeepsRecord ==
  [][ \A s \in Slots :
        BanPlatform(s, FALSE) =>
          /\ tasks[s].op = "fileBan" => lastRet'.result = "BanActionFailed"
          /\ \E b \in modbans' : b.id = tasks[s].banId /\ b.active ]_vars

\* The bans the query of a sweep must find at this moment.
Expired ==
  { b.id : b \in { x \in modbans :
                     x.guild = CurrentGuild /\ x.active /\ x.date <= now - RetentionDays } }

\* C6: the sweep processes exactly the active Ban records of the current guild
\* dated now - RetentionDays or earlier, and asks the platform to unban the
\* user of each of them and of no other ban.
C6_SweepSelectsExpired ==
  [][ \A s \in Slots :
        (tasks[s].pc = "sweepQuery" /\ Moves(s)) =>
          /\ tasks'[s].matched = Expired
          /\ tasks'[s].pending = Expired
          /\ Expired = {} <=> (tasks'[s] = IdleTask /\ lastRet'.result = "NoUnbans")
          /\ \A b \in modbans :
               (IF b.id \in DOMAIN unbanReq' THEN unbanReq'[b.id] ELSE 0)
                 = (IF b.id \in DOMAIN unbanReq THEN unbanReq[b.id] ELSE 0)
                   + (IF b.id \in Expired THEN 1 ELSE 0) ]_vars

\* C6 witness: a sweep took a ban dated exactly now - RetentionDays and left an
\* active ban of the current guild dated one day later.
C6_Witness ==
  \E s \in Slots :
    /\ tasks[s].op = "sweep" /\ tasks[s].pc = "sweepUnban"
    /\ \E b \in modbans : b.id \in tasks[s].matched /\ b.date = now - RetentionDays
    /\ \E b \in modbans : /\ b.id \notin tasks[s].matched
                          /\ b.guild = CurrentGuild /\ b.active
                          /\ b.date = now - RetentionDays + 1

\* C7: a platform unban that fails stops nothing: the other unbans stay
\* requested, and when the batch update has run every ban the sweep matched was
\* asked to be unbanned and is inactive, the failed ones included.
C7_FailedUnbanStillProcessed ==
  [][ \A s \in Slots :
        LET t == tasks[s]
        IN /\ (t.pc = "sweepUnban" /\ Moves(s)) =>
                /\ tasks'[s].matched = t.matched
                /\ \E id \in t.pending : tasks'[s].pending = t.pending \ {id}
                /\ unbanReq' = unbanReq
                /\ tasks'[s].pc = IF tasks'[s].pending = {} THEN "sweepExecute" ELSE "sweepUnban"
           /\ (t.pc = "sweepExecute" /\ Moves(s) /\ lastRet'.result = "Executed") =>
                \A id \in t.matched :
                  /\ id \in DOMAIN unbanReq /\ unbanReq[id] >= 1
                  /\ \E b \in modbans' : b.id = id /\ ~b.active ]_vars

\* C7 witness: a sweep of two bans has run its batch; one unban failed, the
\* other did not, and both bans are inactive.
C7_Witness ==
  /\ lastRet.op = "sweep" /\ lastRet.result = "Executed"
  /\ \E b1, b2 \in modbans :
       /\ b1.id # b2.id /\ ~b1.active /\ ~b2.active
       /\ <<"Failed to unban user", b1.user>> \in log
       /\ <<"Failed to unban user", b2.user>> \notin log

\* Every record of the collection is still there, as it was.
Kept(records) == \A r \in records : r \in records'

\* C8: no step deletes or changes a Report or a Warning; a Ban stays as it is,
\* or goes from active to inactive with every other field as before, in the
\* step of a sweep that runs its batch update; no record gets a second version.
C8_OnlySweepDeactivates ==
  [][ /\ Kept(modreports)
      /\ Kept(modwarnings)
      /\ \A b \in modbans :
           \/ b \in modbans'
           \/ /\ b.active
              /\ [b EXCEPT !.active = FALSE] \in modbans'
              /\ \E s \in Slots : /\ tasks[s].op = "sweep"
                                  /\ tasks[s].pc = "sweepExecute"
                                  /\ Moves(s)
      /\ \A x, y \in modreports' \cup modwarnings' \cup modbans' : x.id = y.id => x = y
      /\ Cardinality(modbans') >= Cardinality(modbans) ]_vars

\* C8 witness: a sweep has deactivated a ban while reports are in the store.
C8_Witness ==
  /\ \E b \in modbans : ~b.active
  /\ modreports # {}

\* The elements of a sequence.
Range(seq) == { seq[i] : i \in DOMAIN seq }

\* C9: channelBan returns, once each, the channels whose permission change
\* succeeded and no other; it returns after every channel it was given has been
\* tried, a failure in one leaving the others pending; an unresolved user gets
\* the empty list; the settling of the report insert leaves the answer as it is.
C9_ReturnsSucceededChannels ==
  [][ \A s \in Slots :
        LET t == tasks[s]
        IN /\ (t.pc = "chanWait" /\ tasks'[s].pc # "chanWait") =>
                /\ t.pending = {}
                /\ lastRet'.op = "channelBan"
                /\ Range(lastRet'.list) = t.succeeded
                /\ Len(lastRet'.list) = Cardinality(t.succeeded)
                /\ \A c \in t.asked \ t.succeeded :
                     <<"Failed to adjust permissions", c>> \in log
           /\ (t.pc = "chanWait" /\ tasks'[s].pc = "chanWait" /\ Moves(s)) =>
                /\ \E c \in t.pending : tasks'[s].pending = t.pending \ {c}
                /\ lastRet' = lastRet
           /\ (calls' # calls /\ tasks' = tasks) =>
                lastRet'.op = "channelBan" /\ lastRet'.list = <<>>
           /\ (t.repIns = "pending" /\ tasks'[s].repIns # "pending") =>
                lastRet' = lastRet ]_vars

\* C9 witness: a channelBan of two channels returned the one that succeeded.
C9_Witness ==
  /\ lastRet.op = "channelBan" /\ Len(lastRet.list) = 1
  /\ \E c \in Channels \ Range(lastRet.list) :
       <<"Failed to adjust permissions", c>> \in log

\* C10: the summary report of channelBan is built and its insert started after
\* every permission change has settled, it names the channels that succeeded,
\* and a failed insert is caught and logged: no rejection is left unhandled.
C10_SummaryReportFailureCaught ==
  /\ \A s \in Slots :
       (tasks[s].op = "channelBan" /\ tasks[s].repIns # "none") =>
         /\ tasks[s].pending = {}
         /\ tasks[s].rep.description = SummaryText(tasks[s].okList)
  /\ "insertReport" \notin unhandled

\* C11: a channelBan whose user handle does not resolve returns the empty
\* list at once: no permission change is asked for in any channel, no report
\* insert is started, the store stays as it is, and the failure is logged.
C11_UnresolvedUserNoAttempt ==
  [][ \A s \in Slots, user \in Users, channels \in SUBSET Channels :
        (ChannelBanCall(s, user, channels, Users \ {user}, MaxOverlap)) =>
          /\ tasks' = tasks
          /\ lastRet'.op = "channelBan" /\ lastRet'.list = <<>>
          /\ lastRet'.pair = <<CurrentGuild, user>>
          /\ <<"Failed to resolve", user>> \in log'
          /\ UNCHANGED <<Stores, unhandled>> ]_vars

\* C11 witness: channelBan of an unresolved user, asked for both channels, has
\* returned the empty list; nothing runs and the store is empty.
C11_Witness ==
  /\ lastRet.op = "channelBan" /\ lastRet.list = <<>>
  /\ <<"Failed to resolve", lastRet.pair[2]>> \in log
  /\ \A c \in Channels : <<"Failed to adjust permissions", c>> \notin log
  /\ Quiet /\ modreports = {} /\ calls = 1

\* C12: the Report constructor throws the unresolved-user error when the handle
\* is not a member's; throws the empty-report error when it is and there is
\* neither a description nor an attachment; otherwise gives a report of that
\* guild and user with the description and attachments passed, one of them not
\* empty.  It writes nothing to the store and starts nothing.
C12_ReportConstruction ==
  [][ \A guild \in Guilds, user \in Users, description \in Descriptions,
         attachments \in AttachmentLists, members \in SUBSET Users :
        NewReportCall(members, guild, user, description, attachments, MaxCalls) =>
          /\ UNCHANGED <<Stores, tasks, log, unhandled>>
          /\ lastRet'.op = "newReport"
          /\ IF user \notin members
               THEN lastRet'.result = "UserNotResolved" /\ lastRet'.rep = NoReport
             ELSE IF description = NoDescription /\ Len(attachments) = 0
               THEN lastRet'.result = "EmptyReport" /\ lastRet'.rep = NoReport
             ELSE /\ lastRet'.result = "none"
                  /\ lastRet'.rep.guild = guild /\ lastRet'.rep.user = user
                  /\ lastRet'.rep.description = description
                  /\ lastRet'.rep.attachments = attachments
                  /\ lastRet'.rep.description # NoDescription
                       \/ Len(lastRet'.rep.attachments) > 0 ]_vars

\* C12 witness: a report without description but with an attachment was
\* constructed while reports filed earlier are in the store.
C12_Witness ==
  /\ lastRet.op = "newReport" /\ lastRet.result = "none"
  /\ lastRet.rep.description = NoDescription /\ Len(lastRet.rep.attachments) > 0
  /\ modreports # {}

\* C13: a fileWarning that does not escalate returns Warned having inserted
\* exactly one Warning of the report's (guild, user) whose reportId is the id
\* of the Report record this call stored; a notification that fails changes
\* neither, and no later step removes a Warning.
C13_WarningReferencesItsReport ==
  [][ /\ Kept(modwarnings)
      /\ \A s \in Slots :
           LET t == tasks[s]
               new == modwarnings' \ modwarnings
           IN (t.op = "fileWarning" /\ t.pc \in {"warnDecide", "warnInsert"}
                 /\ lastRet' # lastRet /\ lastRet'.result = "Warned") =>
                /\ Cardinality(new) = 1
                /\ \A w \in new :
                     /\ <<w.guild, w.user>> = Pair(t.rep)
                     /\ w.reportId # Undefined
                     /\ w.reportId = t.repId
                     /\ \E r \in modreports :
                          r.id = w.reportId /\ <<r.guild, r.user>> = Pair(t.rep) ]_vars

\* The Report record of that id is in the store and is about that (guild, user).
Recorded(id, guild, user) ==
  /\ id # Undefined
  /\ \E r \in modreports : r.id = id /\ r.guild = guild /\ r.user = user

\* C14: every Warning and every Ban in the store refers to a Report record that
\* was stored for it, and the platform was asked to ban a user only if a
\* Report about that (guild, user) is in the store: when the report insert
\* throws or gives no id, the dependent write and the ban are not made.
C14_NoWriteWithoutReport ==
  /\ \A w \in modwarnings : Recorded(w.reportId, w.guild, w.user)
  /\ \A b \in modbans : Recorded(b.reportId, b.guild, b.user)
  /\ \A p \in banReq : \E r \in modreports : <<r.guild, r.user>> = p

ReportPairs == { Pair(rep) : rep \in ReportInputs }

ActiveBan(p) == \E b \in modbans : <<b.guild, b.user>> = p /\ b.active

\* The ban path that a fileWarning started runs in slot s.
Escalated(s) ==
  /\ tasks[s].op = "fileWarning"
  /\ tasks[s].pc \in {"banCheck", "banReport", "banInsert", "banPlatform"}

\* C15: the step in which fileWarning decides to escalate inserts no Warning,
\* starts the ban path on the same report and returns the escalation outcome,
\* and the ban path it started inserts no Warning either.  If no active Ban of
\* the (guild, user) exists when the ban path starts, one exists in the end,
\* provided the store does not fail: the bans collection is there and the
\* report insert of the ban path is not rejected.
C15_EscalationBans ==
  /\ [][ \A s \in Slots :
           LET t == tasks[s]
           IN /\ (t.pc = "warnDecide" /\ tasks'[s].pc = "banCheck") =>
                   /\ modwarnings' = modwarnings
                   /\ tasks'[s].rep = t.rep /\ tasks'[s].op = "fileWarning"
                   /\ lastRet'.op = "fileWarning" /\ lastRet'.result = "EscalatedToBan"
                   /\ lastRet'.pair = Pair(t.rep)
              /\ (Escalated(s) /\ Moves(s)) =>
                   /\ modwarnings' = modwarnings /\ lastRet' = lastRet
                   /\ tasks'[s].pc = "done" \/ (Escalated(s)' /\ tasks'[s].rep = t.rep) ]_vars
  /\ \A p \in ReportPairs :
       (\E s \in Slots : /\ Escalated(s) /\ tasks[s].pc = "banCheck"
                         /\ Pair(tasks[s].rep) = p
                         /\ ~ActiveBan(p) /\ "modbans" \in collections)
         ~> (ActiveBan(p) \/ "fileBan" \in unhandled)

\* C15 witness: fileWarning escalated, the ban path it started has ended, the
\* user has an active Ban and no Warning beyond those that made it escalate.
C15_Witness ==
  /\ lastRet.op = "fileWarning" /\ lastRet.result = "EscalatedToBan"
  /\ Quiet /\ ActiveBan(lastRet.pair) /\ "fileBan" \notin unhandled
  /\ Cardinality({ w \in modwarnings : <<w.guild, w.user>> = lastRet.pair }) = WarningsThresh

ActiveBansOf(bans, p) == { b \in bans : <<b.guild, b.user>> = p /\ b.active }

\* C16: the active-ban check and the insert of fileBan are separate steps and
\* the store takes every insert: a fileBan that passed the check adds an active
\* Ban of its (guild, user) whatever active Bans of it the store holds by then,
\* so two interleaved calls leave two active Bans of one (guild, user).
C16_CheckThenInsertRace ==
  [][ \A s \in Slots :
        LET t == tasks[s]
            p == Pair(t.rep)
        IN /\ (t.pc = "banCheck" /\ tasks'[s].pc = "banReport") =>
                ActiveBansOf(modbans, p) = {} /\ modbans' = modbans
           /\ (t.pc = "banInsert" /\ Moves(s)) =>
                /\ ActiveBansOf(modbans, p) \subseteq ActiveBansOf(modbans', p)
                /\ Cardinality(ActiveBansOf(modbans', p))
                     = Cardinality(ActiveBansOf(modbans, p)) + 1 ]_vars

\* C16 witness: two active Bans of one (guild, user) are in the store.
C16_Witness ==
  \E b1, b2 \in modbans :
    /\ b1.id # b2.id /\ b1.active /\ b2.active
    /\ b1.guild = b2.guild /\ b1.user = b2.user

\* C17: sweeps are serialized: two sweeps in flight never hold the same Ban, and
\* as long as no batch update failed the platform was asked to unban for any
\* one Ban record at most once.
C17_SweepsSerialized ==
  /\ \A s, r \in Slots :
       s # r => tasks[s].matched \cap tasks[r].matched = {}
  /\ <<"bulk.execute", "">> \notin log =>
       \A id \in DOMAIN unbanReq : unbanReq[id] <= 1

\* C18: with a caller that awaits each fileWarning and fileBan before it makes
\* the next call, no (guild, user) ever has two active Ban records.
C18_OneActiveBanWhenAwaited ==
  \A p \in ReportPairs : Cardinality(ActiveBansOf(modbans, p)) <= 1

\* C19: a fileWarning call stores one Report record for its report and no
\* second one: a step of the call that adds a Report finds that the call has
\* stored none yet, whether the call warns or escalates, and a call that
\* returns Warned on a store with a reports collection has stored its Report.
C19_OneReportPerWarning ==
  [][ \A s \in Slots :
        LET t == tasks[s]
        IN /\ (t.op = "fileWarning" /\ Moves(s) /\ modreports' # modreports) =>
                /\ Cardinality(modreports') = Cardinality(modreports) + 1
                /\ t.repId = Undefined /\ t.banRepId = Undefined
           /\ (t.op = "fileWarning" /\ t.pc = "warnInsert" /\ tasks'[s] = IdleTask
                 /\ lastRet'.result = "Warned" /\ "modreports" \in collections) =>
                \E r \in modreports : r.id = t.repId /\ <<r.guild, r.user>> = Pair(t.rep) ]_vars

\* The sweep in slot s returns in this step.
SweepReturns(s) == tasks[s].op = "sweep" /\ tasks'[s] = IdleTask

\* The Ban records past their retention period when this step is taken.
PastRetention(bans) == { b \in bans : b.date <= now - RetentionDays }

\* C20, as stated: every sweep that is run comes to its end, and when it
\* returns no Ban record past its retention period is active any more, whether
\* or not the platform unban succeeded.
C20_EveryExpiredBanLifted ==
  /\ [][ \A s \in Slots :
           SweepReturns(s) => \A b \in PastRetention(modbans') : ~b.active ]_vars
  /\ \A s \in Slots : (tasks[s].op = "sweep") ~> Idle(s)

\* C20, amended: every sweep that is run comes to its end, and when it returns
\* no Ban record of the current guild past its retention period is active any
\* more, whether or not the platform unban succeeded; the Ban records of
\* other guilds are as they were.
C20_ExpiredGuildBansLifted ==
  /\ [][ \A s \in Slots :
           SweepReturns(s) =>
             /\ \A b \in PastRetention(modbans') : b.guild = CurrentGuild => ~b.active
             /\ \A b \in modbans : b.guild # CurrentGuild => b \in modbans' ]_vars
  /\ \A s \in Slots : (tasks[s].op = "sweep") ~> Idle(s)

\* C20 witness: a sweep has run its batch; the ban of the current guild whose
\* unban failed is inactive, and an expired ban of another guild is still active.
C20_Witness ==
  /\ lastRet.op = "sweep" /\ lastRet.result = "Executed" /\ Quiet
  /\ \E b \in PastRetention(modbans) :
       /\ b.guild = CurrentGuild /\ ~b.active
       /\ <<"Failed to unban user", b.user>> \in log
  /\ \E b \in PastRetention(modbans) : b.guild # CurrentGuild /\ b.active

====
